---- MODULE Spec2Model ----
(***************************************************************************)
(* Struct-level validation surface of the validator package                *)
(* (struct_level.go): the accessors Validator/Top/Parent/Current/          *)
(* ExtractType and the two reporting operations ReportError and            *)
(* ReportValidationErrors of *validate.                                    *)
(*                                                                         *)
(* Go strings and []byte are sequences of one-character strings.           *)
(* *fieldError values are pointers: the heap is a sequence of fieldError   *)
(* records and a pointer is an index into it, so that v.errs (a slice of   *)
(* pointers) and a batch handed to ReportValidationErrors can alias.       *)
(***************************************************************************)
EXTENDS Integers, Sequences, FiniteSets, TLC

\* ---- bounds of the model ----------------------------------------------
MaxErrs == 2
MaxNested == 2

\* ---- input domains -----------------------------------------------------
Values == {"order", "customer"}
Handles == {"validate#1"}
\* Where a callback is invoked: on the root struct itself (no prefix), or on
\* a struct nested in the root, with the namespaces the engine has built
Frames ==
    { [top |-> "order", parent |-> "order", current |-> "order",
       ns |-> <<>>, sns |-> <<>>],
      [top |-> "order", parent |-> "order", current |-> "customer",
       ns |-> <<"U", ".">>, sns |-> <<"u", ".">>] }
\* (fieldName, altName, tag) arguments of ReportError
ReportArgs ==
    { [fieldName |-> <<"N">>, altName |-> <<>>, tag |-> "required"],
      [fieldName |-> <<"N">>, altName |-> <<"n">>, tag |-> "gte"],
      [fieldName |-> <<"A">>, altName |-> <<"a">>, tag |-> "gte"] }
FieldInputs == { "nilptr", "int" }
RelativePairs ==
    { [rel |-> <<>>, act |-> <<>>],
      [rel |-> <<"C", ".">>, act |-> <<"c", ".">>] }
NestedErrors ==
    { [ns |-> <<"E">>, structNs |-> <<"e">>, field |-> <<"E">>, structField |-> <<"e">>],
      [ns |-> <<>>, structNs |-> <<>>, field |-> <<"E">>, structField |-> <<"e">>] }
NestedTag == "email"

\* Elements of a ValidationErrors batch ([]FieldError): a *fieldError (a
\* pointer into the heap), a FieldError implemented by another type, and a
\* nil interface value.
Ptr(p) == [ dyn |-> "*fieldError", ptr |-> p ]
Foreign == [ dyn |-> "other", ptr |-> 0 ]
NilElem == [ dyn |-> "nil", ptr |-> 0 ]

Invalid == "invalid"
Unset == "unset"
NoRet == "none"

VARIABLES
    v,            \* validate.v          (*Validate handle)
    top,          \* validate.top
    slflParent,   \* validate.slflParent
    slCurrent,    \* validate.slCurrent
    slNs,         \* validate.slNs       ([]byte)
    slStructNs,   \* validate.slStructNs ([]byte)
    errs,         \* validate.errs       (slice of *fieldError)
    heap,         \* the fieldError objects, addressed by pointer: those this
                  \* run allocated are 1, 2, ..; those of sub-validations -1, -2, ..
    held,         \* pointers the callback obtained from its own sub-validations
    pc,           \* "engine" | "callback" | "done" | "aborted" (a panic left the callback)
    call,         \* the last call made on the surface, with its arguments
    ret,          \* what that call returned
    outcome,      \* "ok" | "panic" for that call
    pre,          \* the validate fields and heap right before that call
    entry,        \* the validate fields at the start of the callback invocation
    log           \* reporting calls of this callback invocation, one per appended entry

vars == << v, top, slflParent, slCurrent, slNs, slStructNs, errs, heap, held,
           pc, call, ret, outcome, pre, entry, log >>

\* The receiver *validate together with the heap its pointers refer to.
Self ==
    [ v |-> v, top |-> top, slflParent |-> slflParent, slCurrent |-> slCurrent,
      slNs |-> slNs, slStructNs |-> slStructNs, errs |-> errs, heap |-> heap,
      outcome |-> "ok" ]

NoCall ==
    [ name |-> "none", field |-> "nil", fieldName |-> <<>>, altName |-> <<>>,
      tag |-> "", rel |-> <<>>, act |-> <<>>, batch |-> <<>> ]

\* a fresh object at address p
Alloc(h, p, e) == [ q \in DOMAIN h \cup {p} |-> IF q = p THEN e ELSE h[q] ]
NewPtr(h) == Cardinality({ q \in DOMAIN h : q > 0 }) + 1
NewNestedPtr(h) == 0 - (Cardinality({ q \in DOMAIN h : q < 0 }) + 1)

IsPrefix(s, t) == Len(s) <= Len(t) /\ \A i \in 1..Len(s) : s[i] = t[i]

\* ---- accessors ---------------------------------------------------------
TopStale(s) == s.slCurrent
Top(s) == s.top

Parent(s) == s.slflParent

Current(s) == s.slCurrent

Validator(s) == s.v

\* extractTypeInternal(field, false): dereferences pointers; a nil interface
\* or nil pointer gives kind invalid.  Total.
extractTypeInternal(field) ==
    CASE field = "nilptr" -> [value |-> "zero", kind |-> Invalid, typ |-> Unset, nullable |-> TRUE]
      [] field = "int"    -> [value |-> "7", kind |-> "int", typ |-> "int", nullable |-> FALSE]

ExtractType(s, field) == extractTypeInternal(field)

\* ---- ReportError -------------------------------------------------------
\* if len(altName) == 0 { altName = fieldName }
altNameNoDefault(fieldName, altName) == altName
altNameOrField(fieldName, altName) ==
    IF Len(altName) = 0 THEN fieldName ELSE altName

\* ns := append(v.slNs, fieldName...) ; string(ns)
\* append returns the longer slice and leaves the slice header v.slNs as it
\* was; string(ns) copies the bytes, so the result shares nothing with v.slNs.
nsDotted(base, name) == IF Len(base) = 0 THEN name ELSE (base \o <<".">>) \o name
nsOf(base, name) == base \o name

\* the &fieldError{...} literal of the two switch cases
fieldErrorAlwaysValue(fv, kind, ns, nsActual, fieldName, altName, tag) ==
    [ tag |-> tag, actualTag |-> tag, ns |-> ns, structNs |-> nsActual,
      field |-> fieldName, structField |-> altName, param |-> "",
      kind |-> kind, value |-> fv.value, typ |-> fv.typ ]
newFieldError(fv, kind, ns, nsActual, fieldName, altName, tag) ==
    IF kind = Invalid
    THEN [ tag |-> tag, actualTag |-> tag, ns |-> ns, structNs |-> nsActual,
           field |-> fieldName, structField |-> altName, param |-> "",
           kind |-> kind, value |-> Unset, typ |-> Unset ]
    ELSE [ tag |-> tag, actualTag |-> tag, ns |-> ns, structNs |-> nsActual,
           field |-> fieldName, structField |-> altName, param |-> "",
           kind |-> kind, value |-> fv.value, typ |-> fv.typ ]

\* v.errs = append(v.errs, e)
appendErrFront(es, p) == <<p>> \o es
appendErr(es, p) == Append(es, p)

ReportErrorAccumulates(s, field, fieldName, altName, tag) ==
    LET ex == extractTypeInternal(field)
        alt == altNameOrField(fieldName, altName)
        ns == nsOf(s.slNs, fieldName)
        nsActual == nsOf(s.slStructNs, alt)
        e == newFieldError(ex, ex.kind, ns, nsActual, fieldName, alt, tag)
        p == NewPtr(s.heap)
    IN [ s EXCEPT !.heap = Alloc(s.heap, p, e), !.errs = appendErr(@, p),
                  !.slNs = ns, !.slStructNs = nsActual ]
ReportError(s, field, fieldName, altName, tag) ==
    LET ex == extractTypeInternal(field)
        alt == altNameOrField(fieldName, altName)
        ns == nsOf(s.slNs, fieldName)
        nsActual == nsOf(s.slStructNs, alt)
        e == newFieldError(ex, ex.kind, ns, nsActual, fieldName, alt, tag)
        p == NewPtr(s.heap)
    IN [ s EXCEPT !.heap = Alloc(s.heap, p, e), !.errs = appendErr(@, p) ]

\* ---- ReportValidationErrors -------------------------------------------
\* errs[i].(*fieldError) succeeds, and the pointer can be dereferenced
IsFieldErrorPtr(x) == x.dyn = "*fieldError"

\* the loop body from index i on; the type assertion panics on an element
\* that is no *fieldError and the loop is left with what was done so far
RECURSIVE rveLoop(_, _, _)
rveLoop(s, batch, i) ==
    IF i > Len(batch) THEN s
    ELSE IF ~IsFieldErrorPtr(batch[i]) THEN [ s EXCEPT !.outcome = "panic" ]
    ELSE LET p == batch[i].ptr
             err == s.heap[p]
             ns == (s.slNs \o err.ns) \o err.field
             structNs == (s.slStructNs \o err.structNs) \o err.structField
         IN rveLoop([ s EXCEPT !.heap[p].ns = ns, !.heap[p].structNs = structNs,
                               !.errs = appendErr(@, p) ],
                    batch, i + 1)

ReportValidationErrors(s, relativeNamespace, relativeActualNamespace, batch) ==
    rveLoop(s, batch, 1)

\* ---- the state machine -------------------------------------------------
Snapshot ==
    [ top |-> top, slflParent |-> slflParent, slCurrent |-> slCurrent,
      slNs |-> slNs, slStructNs |-> slStructNs, errs |-> errs, heap |-> heap ]

Init ==
    /\ v \in Handles
    /\ top \in { f.top : f \in Frames }
    /\ slflParent = top
    /\ slCurrent = top
    /\ slNs = <<>>
    /\ slStructNs = <<>>
    /\ errs = <<>>
    /\ heap = << >>
    /\ held = {}
    /\ pc = "engine"
    /\ call = NoCall
    /\ ret = NoRet
    /\ outcome = "ok"
    /\ pre = [ top |-> top, slflParent |-> top, slCurrent |-> top, slNs |-> <<>>,
               slStructNs |-> <<>>, errs |-> <<>>, heap |-> << >> ]
    /\ entry = pre
    /\ log = <<>>

\* The traversal engine enters a struct and invokes its struct-level callback.
EnterCallback ==
    /\ pc = "engine"
    /\ \E f \in { g \in Frames : g.top = top } :
         /\ slNs' = f.ns
         /\ slStructNs' = f.sns
         /\ slflParent' = f.parent
         /\ slCurrent' = f.current
         /\ entry' = [ Snapshot EXCEPT !.slNs = f.ns, !.slStructNs = f.sns,
                                       !.slflParent = f.parent,
                                       !.slCurrent = f.current ]
         /\ pre' = entry'
    /\ pc' = "callback"
    /\ call' = NoCall
    /\ ret' = NoRet
    /\ outcome' = "ok"
    /\ log' = <<>>
    /\ UNCHANGED << v, top, errs, heap, held >>

\* The callback returns to the traversal engine.
ExitCallback ==
    /\ pc = "callback"
    /\ pc' = "done"
    /\ call' = NoCall
    /\ ret' = NoRet
    /\ UNCHANGED << v, top, slflParent, slCurrent, slNs, slStructNs, errs, heap,
                    held, outcome, pre, entry, log >>

\* The callback runs an independent validation through Validator() and gets
\* back an error of its own, namespaced relative to the nested value.
NestedValidate ==
    /\ pc = "callback"
    /\ Cardinality(held) < MaxNested
    /\ \E e \in NestedErrors :
         heap' = Alloc(heap, NewNestedPtr(heap),
                   [ tag |-> NestedTag, actualTag |-> NestedTag, ns |-> e.ns, structNs |-> e.structNs,
                     field |-> e.field, structField |-> e.structField, param |-> "",
                     kind |-> "string", value |-> "", typ |-> "string" ])
    /\ held' = held \cup { NewNestedPtr(heap) }
    /\ call' = NoCall
    /\ ret' = NoRet
    /\ UNCHANGED << v, top, slflParent, slCurrent, slNs, slStructNs, errs, pc,
                    outcome, pre, entry, log >>

Accessor(name, result) ==
    /\ pc = "callback"
    /\ call' = [ NoCall EXCEPT !.name = name ]
    /\ ret' = result
    /\ outcome' = "ok"
    /\ pre' = Snapshot
    /\ UNCHANGED << v, top, slflParent, slCurrent, slNs, slStructNs, errs, heap,
                    held, pc, entry, log >>

CallValidator == Accessor("Validator", Validator(Self))

CallTop == Accessor("Top", Top(Self))

CallParent == Accessor("Parent", Parent(Self))

CallCurrent == Accessor("Current", Current(Self))

CallExtractType ==
    /\ pc = "callback"
    /\ \E field \in FieldInputs :
         /\ call' = [ NoCall EXCEPT !.name = "ExtractType", !.field = field ]
         /\ ret' = ExtractType(Self, field)
    /\ outcome' = "ok"
    /\ pre' = Snapshot
    /\ UNCHANGED << v, top, slflParent, slCurrent, slNs, slStructNs, errs, heap,
                    held, pc, entry, log >>

\* Writes a result of ReportError / ReportValidationErrors back to the state.
Commit(r) ==
    /\ v' = r.v
    /\ top' = r.top
    /\ slflParent' = r.slflParent
    /\ slCurrent' = r.slCurrent
    /\ slNs' = r.slNs
    /\ slStructNs' = r.slStructNs
    /\ errs' = r.errs
    /\ heap' = r.heap
    /\ outcome' = r.outcome
    /\ pc' = IF r.outcome = "panic" THEN "aborted" ELSE pc
    /\ ret' = NoRet
    /\ pre' = Snapshot

CallReportError ==
    /\ pc = "callback"
    /\ Len(errs) < MaxErrs
    /\ \E field \in FieldInputs, a \in ReportArgs :
         /\ Commit(ReportError(Self, field, a.fieldName, a.altName, a.tag))
         /\ call' = [ NoCall EXCEPT !.name = "ReportError", !.field = field,
                                    !.fieldName = a.fieldName,
                                    !.altName = a.altName, !.tag = a.tag ]
         /\ log' = Append(log, [ op |-> "ReportError", fieldName |-> a.fieldName,
                                 tag |-> a.tag ])
    /\ UNCHANGED << held, entry >>

Batches ==
    UNION { [ 1..n -> { Ptr(p) : p \in held } \cup { Foreign, NilElem } ] :
            n \in 0..MaxErrs }

CallReportValidationErrors ==
    /\ pc = "callback"
    /\ \E rp \in RelativePairs, batch \in Batches :
         /\ Len(errs) + Len(batch) <= MaxErrs
         /\ LET r == ReportValidationErrors(Self, rp.rel, rp.act, batch)
            IN /\ Commit(r)
               /\ log' = log \o [ i \in 1..(Len(r.errs) - Len(errs)) |->
                                    [ op |-> "ReportValidationErrors",
                                      fieldName |-> <<>>, tag |-> "" ] ]
         /\ call' = [ NoCall EXCEPT !.name = "ReportValidationErrors",
                                    !.rel = rp.rel, !.act = rp.act, !.batch = batch ]
    /\ UNCHANGED << held, entry >>

Next ==
    \/ EnterCallback
    \/ ExitCallback
    \/ NestedValidate
    \/ CallValidator
    \/ CallTop
    \/ CallParent
    \/ CallCurrent
    \/ CallExtractType
    \/ CallReportError
    \/ CallReportValidationErrors

Spec == Init /\ [][Next]_vars

\* ---- properties ---------------------------------------------------------
Reporting == { "ReportError", "ReportValidationErrors" }
Accessors == { "Validator", "Top", "Parent", "Current", "ExtractType" }
Added == Len(errs) - Len(pre.errs)
LastErr == heap[errs[Len(errs)]]
NoDuplicates(es) == \A i, j \in 1..Len(es) : es[i] = es[j] => i = j

\* C1 (as claimed): after ReportValidationErrors(relativeNamespace, _, errs)
\* returns, the i-th error it appended has namespace
\* currentNamespace + relativeNamespace + errs[i].ns + errs[i].field, with
\* errs[i].ns and errs[i].field as they were before the call.
C1_MergedNamespaceHasRelative ==
    (call.name = "ReportValidationErrors" /\ outcome = "ok") =>
        /\ Added = Len(call.batch)
        /\ \A i \in 1..Len(call.batch) :
             heap[errs[Len(pre.errs) + i]].ns =
                 ((pre.slNs \o call.rel) \o pre.heap[call.batch[i].ptr].ns)
                     \o pre.heap[call.batch[i].ptr].field

\* C2 (as claimed): the error appended by ReportError has namespace
\* currentNamespace + "." + fieldName when the current namespace is not
\* empty, and fieldName alone when it is empty.
C2_NamespaceDotted ==
    call.name = "ReportError" =>
        /\ Added = 1
        /\ LastErr.ns = IF Len(pre.slNs) = 0 THEN call.fieldName
                        ELSE (pre.slNs \o <<".">>) \o call.fieldName

\* C2 (amended): the error appended by ReportError has namespace
\* currentNamespace + fieldName, a plain concatenation with no separator
\* inserted; with an empty current namespace that is fieldName alone.
C2_NamespaceConcatenated ==
    call.name = "ReportError" =>
        /\ Added = 1
        /\ LastErr.ns = pre.slNs \o call.fieldName
        /\ (Len(pre.slNs) = 0 => LastErr.ns = call.fieldName)

C2_Witness ==
    /\ call.name = "ReportError"
    /\ Len(pre.slNs) > 0
    /\ Len(call.fieldName) > 0

\* C3: the error collection before any call on the surface is a prefix of the
\* collection after it: same entries at the same positions, never shorter.
C3_ErrsOnlyGrow ==
    call.name # "none" => IsPrefix(pre.errs, errs)

C3_Witness ==
    /\ call.name = "ReportValidationErrors"
    /\ Len(pre.errs) >= 1
    /\ Added >= 1

\* C4 (as claimed): a call leaves the namespace, structNamespace and field of
\* every entry already in the collection as they were, and no record is in
\* the collection twice.
C4_FrozenOnceAppended ==
    /\ \A i \in 1..Len(pre.errs) :
         /\ heap[pre.errs[i]].ns = pre.heap[pre.errs[i]].ns
         /\ heap[pre.errs[i]].structNs = pre.heap[pre.errs[i]].structNs
         /\ heap[pre.errs[i]].field = pre.heap[pre.errs[i]].field
    /\ NoDuplicates(errs)

\* C5 (as claimed): ReportValidationErrors(_, _, errs) grows the collection
\* by exactly len(errs) entries, the i-th new entry being errs[i].
C5_GrowsByBatchLength ==
    call.name = "ReportValidationErrors" =>
        /\ Added = Len(call.batch)
        /\ \A i \in 1..Len(call.batch) :
             /\ call.batch[i].dyn = "*fieldError"
             /\ errs[Len(pre.errs) + i] = call.batch[i].ptr

\* C6: in ReportError an empty altName defaults to fieldName; the appended
\* error has structNamespace = current struct namespace + altName,
\* structField = altName, field = fieldName, tag = actualTag = the caller's
\* tag and an empty param.
C6_ReportErrorFields ==
    call.name = "ReportError" =>
        LET alt == IF call.altName = <<>> THEN call.fieldName ELSE call.altName
        IN /\ LastErr.structNs = pre.slStructNs \o alt
           /\ LastErr.structField = alt
           /\ LastErr.field = call.fieldName
           /\ LastErr.tag = call.tag
           /\ LastErr.actualTag = call.tag
           /\ LastErr.param = ""

C6_Witness ==
    /\ call.name = "ReportError"
    /\ call.altName = <<>>
    /\ Len(pre.slStructNs) > 0
    /\ LastErr.structField = call.fieldName

\* C7: every ReportError call returns normally with exactly one new entry;
\* with an invalid kind the entry has kind invalid and neither value nor
\* type, with a valid kind it has both.
C7_OneErrorWhateverTheKind ==
    call.name = "ReportError" =>
        /\ outcome = "ok"
        /\ Added = 1
        /\ ~(errs[Len(errs)] \in DOMAIN pre.heap)
        /\ LastErr.kind = extractTypeInternal(call.field).kind
        /\ (LastErr.kind = Invalid => LastErr.value = Unset /\ LastErr.typ = Unset)
        /\ (LastErr.kind # Invalid => LastErr.value # Unset /\ LastErr.typ # Unset)

C7_Witness ==
    /\ call.name = "ReportError"
    /\ call.field = "nilptr"
    /\ LastErr.kind = Invalid
    /\ Added = 1

\* C8: within one callback invocation every Top call returns the same value,
\* as does every Parent call and every Current call, whatever was called in
\* between, and an accessor leaves the error collection and its records as
\* they were.
C8_AccessorsStable ==
    /\ (call.name = "Top" => ret = entry.top)
    /\ (call.name = "Parent" => ret = entry.slflParent)
    /\ (call.name = "Current" => ret = entry.slCurrent)
    /\ (call.name \in Accessors => errs = pre.errs /\ heap = pre.heap)

C8_Witness ==
    /\ call.name = "Top"
    /\ Len(errs) >= 1
    /\ entry.slCurrent # entry.top
    /\ ret = entry.top

\* C9: a reporting call leaves the current namespace and struct namespace as
\* they were, and the i-th entry a callback invocation added through
\* ReportError has the i-th call's tag and the namespace at callback entry
\* followed by the i-th fieldName only.
C9_NamespaceNotAccumulated ==
    /\ (call.name \in Reporting =>
            slNs = pre.slNs /\ slStructNs = pre.slStructNs)
    /\ Len(errs) = Len(entry.errs) + Len(log)
    /\ \A i \in 1..Len(log) :
         log[i].op = "ReportError" =>
            /\ heap[errs[Len(entry.errs) + i]].ns = entry.slNs \o log[i].fieldName
            /\ heap[errs[Len(entry.errs) + i]].tag = log[i].tag

C9_Witness ==
    /\ Len(log) = 2
    /\ log[1].op = "ReportError"
    /\ log[2].op = "ReportError"
    /\ log[1].fieldName # log[2].fieldName
    /\ Len(entry.slNs) > 0
    /\ heap[errs[2]].ns = entry.slNs \o log[2].fieldName

\* C10 (as claimed): ReportValidationErrors returns normally for every batch
\* of FieldError values and never leaves the callback by a panic.
C10_NeverAborts ==
    call.name = "ReportValidationErrors" => (outcome = "ok" /\ pc # "aborted")

====
